---- MODULE Spec2Model ----
\* A model of assets/js/bookmarks.js: the bookmark lifecycle of a web-delivered
\* book. Durable storage (localStorage) is shared by every tab of the origin;
\* each tab has its own session storage, document and rendered lists.
EXTENDS Integers, Sequences, FiniteSets

VARIABLES
    now,                \* the wall clock read by Date.now()
    localStorage,       \* sequence of entries [key, value]; its order is the
                        \* order in which Object.keys(localStorage) lists them
    sessionStorage,     \* per tab: the 'sessionDate' item (Null when absent)
    page,               \* per tab: URL of the loaded document, or NoPage
    dom,                \* per tab: data-bookmarked / data-bookmark-type
    bookmarks,          \* per tab: the array built by ebBookmarksCheckForBookmarks
                        \* (the keys of its bookmarks, in order)
    bookmarksList,      \* per tab: rendered user-bookmark list items (their keys)
    lastLocationsList,  \* per tab: rendered last-location list items (their keys)
    sdLog,              \* per tab: observed returns of ebBookmarksSessionDate
    boot,               \* the start of the script on the page of tab1: the
                        \* readiness flags, the polling interval, what the
                        \* browser and the page provide, what has run
    ui,                 \* the page of tab1 as the reader handles it: the
                        \* elements pending a bookmark, the latest selection,
                        \* the open list header and panel
    last                \* observation of the handler that ran last: which one,
                        \* in which tab, on which key or type, whether it
                        \* found its key (or anything to delete) in storage
                        \* (for a load: whether it started the session), the
                        \* bookmark it saved, and what its first pruning did

vars == <<now, localStorage, sessionStorage, page, dom, bookmarks,
          bookmarksList, lastLocationsList, sdLog, boot, ui, last>>

----------------------------------------------------------------------------
\* Bounds of the model

\* Date.now() takes the values 1..MaxTime; a new tab session starts at a
\* later instant than the session it replaces.
MaxTime == 3

\* The open tabs (browsing contexts) sharing localStorage.
Tabs == {"tab1", "tab2"}

\* The pages of the site; each belongs to a book.
URLs == {"u1", "u2"}

\* The bookmarkable elements of a page, in document order.
ElemIDs(url) == IF url = "u1" THEN <<"e1", "e2">> ELSE <<"e1">>

AllElemIDs == {"e1", "e2"}

\* What the user may have selected when clicking a bookmark button
\* (ebCurrentSelectionText); <<>> is the empty string.
Selections == {<<>>, <<"s">>}

----------------------------------------------------------------------------
\* Strings are sequences of characters (or of atomic tokens).

Min(a, b) == IF a < b THEN a ELSE b
Max(a, b) == IF a > b THEN a ELSE b

Range(s) == {s[i] : i \in 1..Len(s)}

DigitChars == <<"0", "1", "2", "3", "4", "5", "6", "7", "8", "9">>

\* String(n) for a non-negative integer.
RECURSIVE ToString(_)
ToString(n) ==
    IF n < 10 THEN <<DigitChars[n + 1]>>
    ELSE ToString(n \div 10) \o <<DigitChars[(n % 10) + 1]>>

DigitValue(c) == (CHOOSE i \in 1..10 : DigitChars[i] = c) - 1

\* parseFloat of a string of digits.
RECURSIVE ParseFloat(_)
ParseFloat(s) ==
    IF s = <<>> THEN 0
    ELSE 10 * ParseFloat(SubSeq(s, 1, Len(s) - 1)) + DigitValue(s[Len(s)])

\* String.prototype.includes
Includes(s, sub) ==
    \E i \in 0..(Len(s) - Len(sub)) : SubSeq(s, i + 1, i + Len(sub)) = sub

\* String.prototype.startsWith
StartsWith(s, prefix) ==
    Len(s) >= Len(prefix) /\ SubSeq(s, 1, Len(prefix)) = prefix

\* String.prototype.lastIndexOf for one character: 0-based, -1 when absent.
LastIndexOf(s, c) ==
    IF \E i \in 1..Len(s) : s[i] = c
    THEN (CHOOSE i \in 1..Len(s) :
              s[i] = c /\ \A j \in (i + 1)..Len(s) : s[j] # c) - 1
    ELSE -1

\* String.prototype.slice(0, end); a negative end counts from the end.
Slice0(s, end) ==
    LET e == IF end < 0 THEN Max(Len(s) + end, 0) ELSE Min(end, Len(s))
    IN SubSeq(s, 1, e)

----------------------------------------------------------------------------
\* JavaScript values of a sessionDate: a number or a string of the same digits.

Null == [t |-> "null", s |-> <<>>]
NumberV(n) == [t |-> "number", s |-> ToString(n)]
StringV(n) == [t |-> "string", s |-> ToString(n)]

\* Storage.setItem stores String(value).
Stringify(v) == [t |-> "string", s |-> v.s]

----------------------------------------------------------------------------
\* The documents

NoPage == "none"

BookTitle(url) == IF url = "u1" THEN "Book One" ELSE "Book Two"
PageTitle(url) == IF url = "u1" THEN "Chapter 1" ELSE "Preface"

ebSlugify(title) == IF title = "Book One" THEN <<"book-one">> ELSE <<"book-two">>

InnerText(id) ==
    IF id = "e1" THEN <<"a", "b", " ", "c", "d">> ELSE <<"x", "y">>

Fingerprint(url, id) == <<url, id>>

NoType == "none"

EmptyDom == [bookmarked |-> {},
             btype |-> [e \in AllElemIDs |-> NoType]]

----------------------------------------------------------------------------
\* Fingerprints

\* A document as the list of its elements that carry an id, in document
\* order; the fingerprint "" stands for an absent (or empty) data-fingerprint.
NoFingerprint == ""
Fingerprints == {"f1", "f2"}

\* document.getElementById(elementID): the elements that answer to the id.
ElementsById(doc, elementID) ==
    SelectSeq(doc, LAMBDA el : el.id = elementID)

\* The 'index-of-bookmarks' item of session storage: absent, or a map from
\* fingerprints to ids.
NoIndex == [exists |-> FALSE, map |-> <<>>]

False == "false"
Undefined == "undefined"

\* A variant of ebBookmarksCreateFingerprintIndex that indexes every
\* fingerprint under the id of the first fingerprinted element.
FingerprintIndexOfFirst(doc) ==
    LET fingerprintedElements ==
            SelectSeq(doc, LAMBDA el : el.fingerprint # NoFingerprint)
    IN [exists |-> TRUE,
        map |-> [elementFingerprint \in
                     {fingerprintedElements[i].fingerprint :
                          i \in 1..Len(fingerprintedElements)} |->
                     fingerprintedElements[1].id]]

\* ebBookmarksCreateFingerprintIndex() on a document: each fingerprinted
\* element, in document order, is entered under its fingerprint, so a
\* fingerprint shared by several elements ends up with the id of the last of
\* them; an element without an id is entered with the empty string. The
\* selector '[data-fingerprint' lacks its closing bracket, which the CSS
\* parser supplies at the end of the input.
ebBookmarksCreateFingerprintIndex(doc) ==
    LET fingerprintedElements ==
            SelectSeq(doc, LAMBDA el : el.fingerprint # NoFingerprint)
        LastWith(elementFingerprint) ==
            CHOOSE i \in 1..Len(fingerprintedElements) :
                /\ fingerprintedElements[i].fingerprint = elementFingerprint
                /\ \A j \in (i + 1)..Len(fingerprintedElements) :
                       fingerprintedElements[j].fingerprint # elementFingerprint
    IN [exists |-> TRUE,
        map |-> [elementFingerprint \in
                     {fingerprintedElements[i].fingerprint :
                          i \in 1..Len(fingerprintedElements)} |->
                     fingerprintedElements[LastWith(elementFingerprint)].id]]

\* Variants of ebBookmarksFingerprintID: one that hands out the indexed id
\* after the warning, one that does not test for the index.
FingerprintIDAfterWarning(doc, index, elementID) ==
    LET found == ElementsById(doc, elementID) IN
    IF found = <<>> THEN [ret |-> False, alerts |-> 0]
    ELSE LET fingerprintToCheck == found[1].fingerprint IN
         IF fingerprintToCheck # NoFingerprint /\ index.exists
         THEN LET indexedID == IF fingerprintToCheck \in DOMAIN index.map
                               THEN index.map[fingerprintToCheck]
                               ELSE Undefined
              IN [ret |-> indexedID,
                  alerts |-> IF elementID # indexedID THEN 1 ELSE 0]
         ELSE [ret |-> False, alerts |-> 0]

FingerprintIDWithoutIndexTest(doc, index, elementID) ==
    LET found == ElementsById(doc, elementID) IN
    IF found = <<>> THEN [ret |-> False, alerts |-> 0]
    ELSE LET fingerprintToCheck == found[1].fingerprint IN
         IF fingerprintToCheck # NoFingerprint
         THEN LET indexedID == IF fingerprintToCheck \in DOMAIN index.map
                               THEN index.map[fingerprintToCheck]
                               ELSE Undefined
              IN IF elementID # indexedID
                 THEN [ret |-> Undefined, alerts |-> 1]
                 ELSE [ret |-> indexedID, alerts |-> 0]
         ELSE [ret |-> False, alerts |-> 0]

\* ebBookmarksFingerprintID(elementID) on a document and an index: what it
\* returns and how many times it calls window.alert. On a mismatch the
\* function ends without a return statement.
ebBookmarksFingerprintID(doc, index, elementID) ==
    LET found == ElementsById(doc, elementID) IN
    IF found = <<>> THEN [ret |-> False, alerts |-> 0]
    ELSE LET fingerprintToCheck == found[1].fingerprint IN
         IF fingerprintToCheck # NoFingerprint /\ index.exists
         THEN LET indexedID == IF fingerprintToCheck \in DOMAIN index.map
                               THEN index.map[fingerprintToCheck]
                               ELSE Undefined
              IN IF elementID # indexedID
                 THEN [ret |-> Undefined, alerts |-> 1]
                 ELSE [ret |-> indexedID, alerts |-> 0]
         ELSE [ret |-> False, alerts |-> 0]

----------------------------------------------------------------------------
\* localStorage

Keys(ls) == [i \in 1..Len(ls) |-> ls[i].key]

HasKey(ls, key) == \E i \in 1..Len(ls) : ls[i].key = key

\* What JSON.parse(localStorage.getItem(key)) gives for a missing key: null.
NullBookmark ==
    [sessionDate |-> Null, type |-> "null", bookTitle |-> "", pageTitle |-> "",
     description |-> <<>>, id |-> "", fingerprint |-> <<>>,
     location |-> [url |-> "", hash |-> ""], key |-> <<>>]

\* JSON.parse(localStorage.getItem(key))
GetItem(ls, key) ==
    IF HasKey(ls, key)
    THEN (CHOOSE e \in Range(ls) : e.key = key).value
    ELSE NullBookmark

\* A variant that removes every entry of the key's book.
RemoveItemsOfBook(ls, key) ==
    SelectSeq(ls, LAMBDA e : ~StartsWith(e.key, SubSeq(key, 1, 2)))

\* localStorage.removeItem(key)
RemoveItem(ls, key) == SelectSeq(ls, LAMBDA e : e.key # key)

\* A variant that leaves the entry of an existing key as it is.
SetItemOnce(ls, key, value, pos) ==
    IF HasKey(ls, key) THEN ls
    ELSE SubSeq(ls, 1, pos) \o <<[key |-> key, value |-> value]>>
             \o SubSeq(ls, pos + 1, Len(ls))

\* localStorage.setItem(key, value): an existing key keeps its place in the
\* enumeration; where a new key appears in it is up to the user agent (pos).
SetItem(ls, key, value, pos) ==
    IF HasKey(ls, key)
    THEN [i \in 1..Len(ls) |->
             IF ls[i].key = key THEN [key |-> key, value |-> value] ELSE ls[i]]
    ELSE SubSeq(ls, 1, pos) \o <<[key |-> key, value |-> value]>>
             \o SubSeq(ls, pos + 1, Len(ls))

----------------------------------------------------------------------------
\* Session identifier

\* ebBookmarksSessionDate(): ss is the stored 'sessionDate' item, clock the
\* value Date.now() would give. The first call returns the number it has
\* just stored (as a string); later calls return the stored string.
ebBookmarksSessionDate(ss, clock) ==
    IF ss # Null
    THEN [ret |-> ss, ss |-> ss, wrote |-> FALSE]
    ELSE [ret |-> NumberV(clock), ss |-> Stringify(NumberV(clock)),
          wrote |-> TRUE]

NoLog == [first |-> Null, latest |-> Null, writes |-> 0]

\* The observation of one more call of ebBookmarksSessionDate in a tab.
LogCall(log, r) ==
    [first |-> IF log.first = Null THEN r.ret ELSE log.first,
     latest |-> r.ret,
     writes |-> log.writes + (IF r.wrote THEN 1 ELSE 0)]

----------------------------------------------------------------------------
\* Last-location policy

LastLocationInfix == <<"-", "lastLocation", "-">>
BookmarkPrefix == <<"bookmark-">>

\* A variant of the test that does not look for '-lastLocation-' in the key.
IsBookmarkOf(e, bookTitleToClean) ==
    /\ StartsWith(e.key, BookmarkPrefix)
    /\ e.value.bookTitle = bookTitleToClean

\* The test both loops of ebBookmarksCleanLastLocations apply to an entry.
IsLastLocationOf(e, bookTitleToClean) ==
    /\ StartsWith(e.key, BookmarkPrefix)
    /\ Includes(e.key, LastLocationInfix)
    /\ e.value.bookTitle = bookTitleToClean

\* lastLocations.slice(Math.max(lastLocations.length - 2, 0))
KeepLastTwo(lastLocations) ==
    SubSeq(lastLocations, Max(Len(lastLocations) - 2, 0) + 1, Len(lastLocations))

\* Array.prototype.sort (stable) ascending by parseFloat(sessionDate).
RECURSIVE SortBySessionDate(_)
SortBySessionDate(s) ==
    IF Len(s) <= 1 THEN s
    ELSE LET rest == SortBySessionDate(SubSeq(s, 1, Len(s) - 1))
             x == s[Len(s)]
             n == Cardinality({i \in 1..Len(rest) :
                      ParseFloat(rest[i].sessionDate.s)
                          <= ParseFloat(x.sessionDate.s)})
         IN SubSeq(rest, 1, n) \o <<x>> \o SubSeq(rest, n + 1, Len(rest))

\* The records ebBookmarksCleanLastLocations decides to retain (lines 135-165).
RetainedLastLocations(ls, bookTitleToClean, cur) ==
    LET found == SelectSeq(ls, LAMBDA e : IsLastLocationOf(e, bookTitleToClean))
        lastLocations == [i \in 1..Len(found) |-> found[i].value]
        sorted == SortBySessionDate(KeepLastTwo(lastLocations))
        previousSessionLocations ==
            Cardinality({i \in 1..Len(sorted) : sorted[i].sessionDate # cur})
    IN IF previousSessionLocations > 1 THEN Tail(sorted) ELSE sorted

\* ebBookmarksCleanLastLocations(bookTitleToClean): the storage it leaves.
\* cur is what ebBookmarksSessionDate() returns (the session's stored string).
ebBookmarksCleanLastLocations(ls, bookTitleToClean, cur) ==
    LET lastLocations == RetainedLastLocations(ls, bookTitleToClean, cur)
        Matches(e) ==
            Cardinality({i \in 1..Len(lastLocations) :
                Includes(e.key, lastLocations[i].sessionDate.s)})
    IN SelectSeq(ls, LAMBDA e :
           ~(IsLastLocationOf(e, bookTitleToClean) /\ Matches(e) = 0))

----------------------------------------------------------------------------
\* Reconciliation of the document and the lists with storage

\* ebBookmarksCheckForCurrentPage(url): the URLs without their fragments.
ebBookmarksCheckForCurrentPage(pageURL, location) == pageURL = location.url

\* A variant of the marking loop in which the type of the last bookmark wins.
RECURSIVE MarkEachLastWins(_, _, _)
MarkEachLastWins(d, bms, pageURL) ==
    IF bms = <<>> THEN [dom |-> d, threw |-> FALSE]
    ELSE LET bookmark == Head(bms) IN
         IF ~ebBookmarksCheckForCurrentPage(pageURL, bookmark.location)
         THEN MarkEachLastWins(d, Tail(bms), pageURL)
         ELSE IF bookmark.id \notin Range(ElemIDs(pageURL))
         THEN [dom |-> d, threw |-> TRUE]
         ELSE MarkEachLastWins(
                [bookmarked |-> d.bookmarked \cup {bookmark.id},
                 btype |-> [d.btype EXCEPT ![bookmark.id] = bookmark.type]],
                Tail(bms), pageURL)

\* ebBookmarksMarkBookmarks(bookmarks) on the document of pageURL. An id that
\* no element of the document carries makes setAttribute throw.
RECURSIVE MarkEach(_, _, _)
MarkEach(d, bms, pageURL) ==
    IF bms = <<>> THEN [dom |-> d, threw |-> FALSE]
    ELSE LET bookmark == Head(bms) IN
         IF ~ebBookmarksCheckForCurrentPage(pageURL, bookmark.location)
         THEN MarkEach(d, Tail(bms), pageURL)
         ELSE IF bookmark.id \notin Range(ElemIDs(pageURL))
         THEN [dom |-> d, threw |-> TRUE]
         ELSE MarkEach(
                [bookmarked |-> d.bookmarked \cup {bookmark.id},
                 btype |-> [d.btype EXCEPT ![bookmark.id] =
                               IF @ = "userBookmark" THEN "userBookmark"
                               ELSE bookmark.type]],
                Tail(bms), pageURL)

ebBookmarksMarkBookmarks(d, bms, pageURL) ==
    MarkEach([d EXCEPT !.bookmarked = {}], bms, pageURL)

\* ebBookmarksListBookmarks(bookmarks): both lists are rebuilt; every item
\* first prunes the last locations of its book. A list item is represented
\* by the key of the bookmark its delete button holds.
RECURSIVE ListEach(_, _, _, _, _)
ListEach(ls, bms, cur, ul, ll) ==
    IF bms = <<>>
    THEN [ls |-> ls, bookmarksList |-> ul, lastLocationsList |-> ll]
    ELSE LET bookmark == Head(bms)
             cleaned == ebBookmarksCleanLastLocations(ls, bookmark.bookTitle, cur)
         IN IF bookmark.type = "lastLocation" /\ bookmark.sessionDate = cur
            THEN ListEach(cleaned, Tail(bms), cur, ul, ll)
            ELSE IF bookmark.type = "lastLocation"
            THEN ListEach(cleaned, Tail(bms), cur, ul, Append(ll, bookmark.key))
            ELSE ListEach(cleaned, Tail(bms), cur, Append(ul, bookmark.key), ll)

ebBookmarksListBookmarks(ls, bms, cur) == ListEach(ls, bms, cur, <<>>, <<>>)

\* The first loop of ebBookmarksCheckForBookmarks, over a snapshot of the keys.
RECURSIVE CleanEach(_, _, _)
CleanEach(keys, ls, cur) ==
    IF keys = <<>> THEN ls
    ELSE LET key == Head(keys)
             entry == GetItem(ls, key)
         IN IF StartsWith(key, BookmarkPrefix) /\ entry # NullBookmark
            THEN CleanEach(Tail(keys),
                     ebBookmarksCleanLastLocations(ls, entry.bookTitle, cur), cur)
            ELSE CleanEach(Tail(keys), ls, cur)

\* A variant of the second loop without the test on the session.
EveryBookmark(ls, cur) ==
    LET shown == SelectSeq(ls, LAMBDA e : StartsWith(e.key, BookmarkPrefix))
    IN [i \in 1..Len(shown) |-> shown[i].value]

\* The second loop: every stored bookmark but the current session's own
\* last location.
VisibleBookmarks(ls, cur) ==
    LET shown == SelectSeq(ls, LAMBDA e :
                     /\ StartsWith(e.key, BookmarkPrefix)
                     /\ \/ e.value.type # "lastLocation"
                        \/ e.value.sessionDate # cur)
    IN [i \in 1..Len(shown) |-> shown[i].value]

NoClean == [called |-> FALSE, title |-> "", cur |-> Null,
            before |-> <<>>, after |-> {}]

\* The sessionDates of the stored last locations of a book, as enumerated.
SessionDatesOf(ls, title) ==
    LET found == SelectSeq(ls, LAMBDA e : IsLastLocationOf(e, title))
    IN [i \in 1..Len(found) |-> found[i].value.sessionDate]

\* What the first pruning of a reconciliation pass was given and what it
\* left: the last locations of the book pruned, by their sessionDates.
FirstClean(ls, cur) ==
    IF ls # <<>> /\ StartsWith(ls[1].key, BookmarkPrefix)
    THEN LET title == ls[1].value.bookTitle IN
         [called |-> TRUE, title |-> title, cur |-> cur,
          before |-> SessionDatesOf(ls, title),
          after |-> Range(SessionDatesOf(
                        ebBookmarksCleanLastLocations(ls, title, cur), title))]
    ELSE NoClean

KeysOf(bms) == [i \in 1..Len(bms) |-> bms[i].key]

\* ebBookmarksCheckForBookmarks() in a tab whose session is cur, showing pageURL.
ebBookmarksCheckForBookmarks(ls, cur, pageURL, d) ==
    LET pruned == CleanEach(Keys(ls), ls, cur)
        bms == VisibleBookmarks(pruned, cur)
        marked == ebBookmarksMarkBookmarks(d, bms, pageURL)
        listed == ebBookmarksListBookmarks(pruned, bms, cur)
    IN IF marked.threw
       THEN [ls |-> pruned, bookmarks |-> KeysOf(bms), dom |-> marked.dom,
             bookmarksList |-> <<>>, lastLocationsList |-> <<>>,
             threw |-> TRUE, clean |-> FirstClean(ls, cur)]
       ELSE [ls |-> listed.ls, bookmarks |-> KeysOf(bms), dom |-> marked.dom,
             bookmarksList |-> listed.bookmarksList,
             lastLocationsList |-> listed.lastLocationsList,
             threw |-> FALSE, clean |-> FirstClean(ls, cur)]

\* Whether a reconciliation pass calls ebBookmarksSessionDate at all: it does
\* as soon as storage holds a last location.
ReadsSessionDate(ls) ==
    \E e \in Range(ls) : e.value.type = "lastLocation"

----------------------------------------------------------------------------
\* Capturing a bookmark

ExcerptLength == 50
Ellipsis == <<" ", "...">>

\* The fallback description of ebBookmarksSetBookmark (lines 463-475).
Excerpt(innerText) ==
    LET description == Slice0(innerText, ExcerptLength)
        indexOfLastSpace == LastIndexOf(description, " ")
        indexOfLastFullStop == LastIndexOf(description, ".")
        elideFrom == IF indexOfLastFullStop > indexOfLastSpace
                     THEN indexOfLastFullStop ELSE indexOfLastSpace
    IN Slice0(description, elideFrom) \o Ellipsis

\* A variant that puts the session into every key, whatever the type.
BookmarkKeyPerSession(type, bookTitle, sessionDate) ==
    BookmarkPrefix \o ebSlugify(bookTitle) \o <<"-", type, "-">>
        \o sessionDate.s

\* The description ebBookmarksSetBookmark stores: the one it was given, or
\* the excerpt when it was given none (or an empty one).
DescriptionOf(description, innerText) ==
    IF description = <<>> THEN Excerpt(innerText) ELSE description

\* What ebBookmarksElementID answers: an id, or an exception.
NoElement == "none"
NoId == ""
NoHash == ""

\* ebBookmarksElementID(element). element is the id of the element passed
\* (NoId when it has none, NoElement when nothing is passed); onscreen is
\* the first element tagged data-bookmark="onscreen", hash is
\* window.location.hash and firstWithId the first element with an id, each
\* with NoElement or NoHash when there is none. Reading a property of null
\* throws.
ebBookmarksElementID(element, onscreen, hash, firstWithId) ==
    LET el == IF element = NoElement THEN onscreen ELSE element IN
    IF el = NoElement THEN [threw |-> TRUE, id |-> NoId]
    ELSE IF el # NoId THEN [threw |-> FALSE, id |-> el]
    ELSE IF hash # NoHash THEN [threw |-> FALSE, id |-> hash]
    ELSE IF firstWithId = NoElement THEN [threw |-> TRUE, id |-> NoId]
    ELSE [threw |-> FALSE, id |-> firstWithId]

\* The storage key of a bookmark (lines 493-506).
BookmarkKey(type, bookTitle, sessionDate) ==
    IF type = "lastLocation"
    THEN BookmarkPrefix \o ebSlugify(bookTitle) \o <<"-", type, "-">>
             \o sessionDate.s
    ELSE BookmarkPrefix \o ebSlugify(bookTitle) \o <<"-", type>>

\* The bookmark object ebBookmarksSetBookmark builds (lines 477-509).
NewBookmark(type, id, description, cur, pageURL) ==
    [sessionDate |-> cur,
     type |-> type,
     bookTitle |-> BookTitle(pageURL),
     pageTitle |-> PageTitle(pageURL),
     description |-> DescriptionOf(description, InnerText(id)),
     id |-> id,
     fingerprint |-> Fingerprint(pageURL, id),
     location |-> [url |-> pageURL, hash |-> id],
     key |-> BookmarkKey(type, BookTitle(pageURL), cur)]

\* A variant that stores every bookmark of a type under one key.
SaveBookmarkUnderType(ls, bookmark, pos) ==
    SetItem(ls, BookmarkPrefix \o <<bookmark.type>>, bookmark, pos)

\* localStorage.setItem(bookmarkKey, JSON.stringify(bookmark)) (line 512).
SaveBookmark(ls, bookmark, pos) == SetItem(ls, bookmark.key, bookmark, pos)

\* ebBookmarksSetBookmark(type, element, description)
ebBookmarksSetBookmark(ls, cur, pageURL, d, type, id, description, pos) ==
    ebBookmarksCheckForBookmarks(
        SaveBookmark(ls, NewBookmark(type, id, description, cur, pageURL), pos),
        cur, pageURL, d)

\* ebBookmarkMarkBookmarkedElement(element): every marker is removed, then
\* the element is marked.
ebBookmarkMarkBookmarkedElement(d, id) == [d EXCEPT !.bookmarked = {id}]

----------------------------------------------------------------------------
\* Deleting bookmarks

\* The deletion loop of ebBookmarksDeleteAllBookmarks (lines 412-427);
\* type "undefined" stands for a call without a type.
DeleteEveryBookmark(ls, type) ==
    SelectSeq(ls, LAMBDA e : ~StartsWith(e.key, BookmarkPrefix))

DeleteMatching(ls, type) ==
    SelectSeq(ls, LAMBDA e :
        ~(/\ StartsWith(e.key, BookmarkPrefix)
          /\ (type # "undefined" => e.value.type = type)))

----------------------------------------------------------------------------
\* The state machine: one action per handler

Types == {"userBookmark", "lastLocation"}

NoOp == [op |-> "init", tab |-> "", key |-> <<>>, type |-> "",
         hit |-> FALSE, saved |-> NullBookmark, clean |-> NoClean]

\* What ebBookmarksSupport asks of the browser.
Capabilities == {"IntersectionObserver", "getSelection", "localStorage"}

\* A variant of ebBookmarksSupport that does not ask for the observer.
SupportWithoutObserver(capabilities) ==
    {"getSelection", "localStorage"} \subseteq capabilities

\* ebBookmarksSupport(), as far as its test goes (lines 55-59).
ebBookmarksSupport(capabilities) == Capabilities \subseteq capabilities

\* The script before its first tick on a page: url is the page, capabilities
\* what the browser provides, controls whether the page has the '.bookmarks'
\* element, stored the durable storage the page finds.
Booting(url, capabilities, controls, stored) ==
    [url |-> url, capabilities |-> capabilities, controls |-> controls,
     stored |-> stored,
     ebIDsAssigned |-> FALSE, ebFingerprintsAssigned |-> FALSE,
     polling |-> TRUE, inits |-> 0, processed |-> 0,
     index |-> FALSE, hidden |-> FALSE, listeners |-> FALSE]

\* The script on a page where it has started: ebBookmarksProcess has run.
Started ==
    [Booting("u1", Capabilities, TRUE, <<>>) EXCEPT
        !.ebIDsAssigned = TRUE, !.ebFingerprintsAssigned = TRUE,
        !.polling = FALSE, !.inits = 1, !.processed = 1,
        !.index = TRUE, !.listeners = TRUE]

\* A node of the document that is not there (null).
NoNode == "null"

\* The two list headers, in document order, each the first child of its
\* list panel.
Headers == <<"bookmarks", "lastLocations">>

\* The page as delivered: nothing pending, nothing selected, no header or
\* panel open, no listener on the headers.
Delivered ==
    [pending |-> {}, selected |-> NoNode, text |-> <<>>, threw |-> FALSE,
     listeners |-> 0, headerOpen |-> {}, listOpen |-> {}, clicked |-> NoNode]

\* The page once ebBookmarksProcess has run: ebBookmarkListsOpenOnClick has
\* attached its listeners and set the default view (lines 740-742).
Shown == [Delivered EXCEPT !.listeners = 1, !.headerOpen = {Headers[1]}]

Init ==
    /\ now = 1
    /\ localStorage = <<>>
    /\ sessionStorage = [t \in Tabs |-> Null]
    /\ page = [t \in Tabs |-> NoPage]
    /\ dom = [t \in Tabs |-> EmptyDom]
    /\ bookmarks = [t \in Tabs |-> <<>>]
    /\ bookmarksList = [t \in Tabs |-> <<>>]
    /\ lastLocationsList = [t \in Tabs |-> <<>>]
    /\ sdLog = [t \in Tabs |-> NoLog]
    /\ boot = Started
    /\ ui = Shown
    /\ last = NoOp

\* What a reconciliation pass c leaves in tab t.
Reconciled(t, c, d) ==
    /\ localStorage' = c.ls
    /\ dom' = [dom EXCEPT ![t] = d]
    /\ bookmarks' = [bookmarks EXCEPT ![t] = c.bookmarks]
    /\ bookmarksList' = [bookmarksList EXCEPT ![t] = c.bookmarksList]
    /\ lastLocationsList' = [lastLocationsList EXCEPT ![t] = c.lastLocationsList]

\* The document of tab t goes away.
Unloaded(t) ==
    /\ page' = [page EXCEPT ![t] = NoPage]
    /\ dom' = [dom EXCEPT ![t] = EmptyDom]
    /\ bookmarks' = [bookmarks EXCEPT ![t] = <<>>]
    /\ bookmarksList' = [bookmarksList EXCEPT ![t] = <<>>]
    /\ lastLocationsList' = [lastLocationsList EXCEPT ![t] = <<>>]

\* One more call of ebBookmarksSessionDate in tab t when the pass over ls
\* makes one.
LogReads(t, ls, log) ==
    IF ReadsSessionDate(ls)
    THEN LogCall(log, ebBookmarksSessionDate(sessionStorage'[t], now))
    ELSE log

\* Where setItem may place the key in the enumeration.
Positions(key) ==
    IF HasKey(localStorage, key) THEN {0} ELSE 0..Len(localStorage)

\* ebBookmarksProcess(): a page of the book is loaded in tab t, the readiness
\* flags are set and every capability is present. elapsed is the time that
\* passes between this reading of Date.now() and the next session's.
ProcessedAt(t, url, elapsed) ==
    /\ sessionStorage[t] = Null => now <= MaxTime
    /\ \E r \in {ebBookmarksSessionDate(sessionStorage[t], now)} :
       \E c \in {ebBookmarksCheckForBookmarks(localStorage, r.ss, url, EmptyDom)} :
          /\ sessionStorage' = [sessionStorage EXCEPT ![t] = r.ss]
          /\ now' = IF r.wrote THEN now + elapsed ELSE now
          /\ page' = [page EXCEPT ![t] = url]
          /\ Reconciled(t, c, c.dom)
          /\ sdLog' = [sdLog EXCEPT ![t] =
                          LogReads(t, localStorage, LogCall(@, r))]
          /\ last' = [NoOp EXCEPT !.op = "load", !.tab = t, !.hit = r.wrote,
                         !.clean = c.clean]

\* The next session starts at a later instant.
Processed(t, url) == ProcessedAt(t, url, 1)

ebBookmarksProcess(t, url) ==
    /\ page[t] = NoPage
    /\ Processed(t, url)
    /\ UNCHANGED <<boot, ui>>

\* The click listener of a bookmark button (ebBookmarksListenForClicks) on
\* element id, with the current text selection.
ClickBookmarkButton(t, id, selection) ==
    /\ page[t] # NoPage
    /\ UNCHANGED <<boot, ui>>
    /\ id \in Range(ElemIDs(page[t]))
    /\ \E cur \in {sessionStorage[t]} :
       \E bookmark \in {NewBookmark("userBookmark", id, selection, cur, page[t])} :
       \E key \in {bookmark.key} :
       \E pos \in Positions(key) :
       \E c \in {ebBookmarksSetBookmark(localStorage, cur, page[t], dom[t],
                    "userBookmark", id, selection, pos)} :
          /\ Reconciled(t, c, IF c.threw THEN c.dom
                              ELSE ebBookmarkMarkBookmarkedElement(c.dom, id))
          /\ UNCHANGED <<now, sessionStorage, page>>
          /\ sdLog' = [sdLog EXCEPT ![t] =
                          LogCall(@, ebBookmarksSessionDate(cur, now))]
          /\ last' = [NoOp EXCEPT !.op = "setUserBookmark", !.tab = t,
                         !.key = key, !.type = "userBookmark",
                         !.hit = HasKey(localStorage, key),
                         !.saved = bookmark, !.clean = c.clean]

\* The beforeunload listener (lines 802-805). onscreen is the first element
\* tagged data-bookmark="onscreen", NoElement when there is none: then
\* ebBookmarksElementID throws and nothing is saved.
BeforeUnload(t, onscreen) ==
    /\ page[t] # NoPage
    /\ onscreen \in Range(ElemIDs(page[t])) \cup {NoElement}
    /\ Unloaded(t)
    /\ UNCHANGED <<now, sessionStorage, boot, ui>>
    /\ IF ebBookmarksElementID(NoElement, onscreen, NoHash,
                               Head(ElemIDs(page[t]))).threw
       THEN /\ UNCHANGED <<localStorage, sdLog>>
            /\ last' = [NoOp EXCEPT !.op = "unloadThrew", !.tab = t]
       ELSE \E cur \in {sessionStorage[t]} :
            \E bookmark \in {NewBookmark("lastLocation", onscreen, <<>>, cur, page[t])} :
            \E key \in {bookmark.key} :
            \E pos \in Positions(key) :
            \E c \in {ebBookmarksSetBookmark(localStorage, cur, page[t], dom[t],
                         "lastLocation", onscreen, <<>>, pos)} :
               /\ localStorage' = c.ls
               /\ sdLog' = [sdLog EXCEPT ![t] =
                               LogCall(@, ebBookmarksSessionDate(cur, now))]
               /\ last' = [NoOp EXCEPT !.op = "setLastLocation", !.tab = t,
                              !.key = key, !.type = "lastLocation",
                              !.hit = HasKey(localStorage, key),
                              !.saved = bookmark, !.clean = c.clean]

\* ebBookmarksDeleteBookmark(bookmark), from the delete button of a list item.
ebBookmarksDeleteBookmark(t, key) ==
    /\ page[t] # NoPage
    /\ UNCHANGED <<boot, ui>>
    /\ \E removed \in {RemoveItem(localStorage, key)} :
       \E c \in {ebBookmarksCheckForBookmarks(removed, sessionStorage[t],
                    page[t], dom[t])} :
          /\ Reconciled(t, c, c.dom)
          /\ UNCHANGED <<now, sessionStorage, page>>
          /\ sdLog' = [sdLog EXCEPT ![t] = LogReads(t, removed, @)]
          /\ last' = [NoOp EXCEPT !.op = "deleteBookmark", !.tab = t,
                         !.key = key, !.hit = HasKey(localStorage, key),
                         !.clean = c.clean]

\* ebBookmarksDeleteAllBookmarks(type); confirmed is the user's answer to
\* window.confirm.
DeleteAndRefresh(t, type, op) ==
    \E removed \in {DeleteMatching(localStorage, type)} :
    \E c \in {ebBookmarksCheckForBookmarks(removed, sessionStorage[t],
                 page[t], dom[t])} :
       /\ Reconciled(t, c, c.dom)
       /\ sdLog' = [sdLog EXCEPT ![t] = LogReads(t, removed, @)]
       /\ last' = [NoOp EXCEPT !.op = op, !.tab = t, !.type = type,
                      !.hit = (removed # localStorage), !.clean = c.clean]

\* A variant that does not look at the answer.
DeleteAllUnasked(t, type, confirmed) ==
    /\ page[t] # NoPage
    /\ UNCHANGED <<now, sessionStorage, page, boot, ui>>
    /\ DeleteAndRefresh(t, type, IF confirmed THEN "deleteAll"
                                 ELSE "deleteAllDeclined")

ebBookmarksDeleteAllBookmarks(t, type, confirmed) ==
    /\ page[t] # NoPage
    /\ UNCHANGED <<now, sessionStorage, page, boot, ui>>
    /\ IF confirmed
       THEN DeleteAndRefresh(t, type, "deleteAll")
       ELSE /\ UNCHANGED <<localStorage, dom, bookmarks, bookmarksList,
                           lastLocationsList, sdLog>>
            /\ last' = [NoOp EXCEPT !.op = "deleteAllDeclined", !.tab = t,
                           !.type = type]

\* The tab is closed and a new one opened: session storage starts empty.
NewSession(t) ==
    /\ page[t] = NoPage
    /\ sessionStorage[t] # Null
    /\ sessionStorage' = [sessionStorage EXCEPT ![t] = Null]
    /\ sdLog' = [sdLog EXCEPT ![t] = NoLog]
    /\ last' = [NoOp EXCEPT !.op = "newSession", !.tab = t]
    /\ UNCHANGED <<now, localStorage, page, dom, bookmarks, bookmarksList,
                   lastLocationsList, boot, ui>>

\* A reader in tab t who opens pages, leaves them, and closes the tab.
Reading(t, U, E) ==
    \/ \E url \in U : ebBookmarksProcess(t, url)
    \/ \E onscreen \in E \cup {NoElement} : BeforeUnload(t, onscreen)
    \/ NewSession(t)

\* A reader in tab t who also places and deletes bookmarks.
Bookmarking(t, E, S) ==
    \/ \E id \in E, selection \in S : ClickBookmarkButton(t, id, selection)
    \/ \E key \in Range(bookmarksList[t]) \cup Range(lastLocationsList[t]) :
            ebBookmarksDeleteBookmark(t, key)
    \/ \E type \in Types \cup {"undefined"}, confirmed \in BOOLEAN :
            ebBookmarksDeleteAllBookmarks(t, type, confirmed)

\* Two tabs on one book: tab1 reads and bookmarks, tab2 only reads.
Next ==
    \/ Reading("tab1", {"u1"}, {"e1"})
    \/ Bookmarking("tab1", {"e1"}, Selections)
    \/ Reading("tab2", {"u1"}, {"e1"})

Spec == Init /\ [][Next]_vars

\* One tab in which pages of both books are opened and left, with either
\* element on screen.
NextPages == Reading("tab1", URLs, AllElemIDs)

SpecPages == Init /\ [][NextPages]_vars

\* The milliseconds that may pass between the first call of
\* ebBookmarksSessionDate in one tab and the next such call in any tab.
Elapsed == {0, 1}

\* ebBookmarksProcess() where Date.now() need not have moved on when the next
\* tab reads it.
ProcessAtSomeInstant(t, url) ==
    /\ page[t] = NoPage
    /\ \E elapsed \in Elapsed : ProcessedAt(t, url, elapsed)
    /\ UNCHANGED <<boot, ui>>

\* Two tabs that open page u1, leave it and are closed, on a clock of
\* millisecond resolution.
NextInstants ==
    \/ \E t \in Tabs : ProcessAtSomeInstant(t, "u1")
    \/ \E t \in Tabs, onscreen \in Range(ElemIDs("u1")) \cup {NoElement} :
           BeforeUnload(t, onscreen)
    \/ \E t \in Tabs : NewSession(t)

SpecInstants == Init /\ [][NextInstants]_vars

\* One tab on page u1: the reader leaves the page with e2 on screen, and
\* places bookmarks on e1 and deletes bookmarks.
NextMarks ==
    \/ Reading("tab1", {"u1"}, {"e2"})
    \/ Bookmarking("tab1", {"e1"}, {<<>>})

SpecMarks == Init /\ [][NextMarks]_vars

\* One tab in which pages of both books are opened, bookmarks are placed on
\* e1 and deleted; the page of Book One is left with e1 on screen, the page
\* of Book Two with nothing on screen.
NextFrame ==
    \/ \E url \in URLs : ebBookmarksProcess("tab1", url)
    \/ page["tab1"] = "u1" /\ BeforeUnload("tab1", "e1")
    \/ page["tab1"] = "u2" /\ BeforeUnload("tab1", NoElement)
    \/ NewSession("tab1")
    \/ Bookmarking("tab1", {"e1"}, {<<>>})

SpecFrame == Init /\ [][NextFrame]_vars

----------------------------------------------------------------------------
\* The functions on their own: each action calls one function on arguments
\* and on a document or a storage drawn from small sets, and leaves in last
\* what it was given and what it produced.

\* The longest array of bookmarks handed to a function.
MaxRecords == 2

\* All sequences over S of length at most n.
SeqsUpTo(S, n) == UNION {[1..k -> S] : k \in 0..n}

\* What ebBookmarksMarkBookmarks reads of a bookmark. A stored bookmark may
\* carry an id that the document of its page had in an earlier edition.
MarkRecords ==
    {[id |-> id, type |-> type, location |-> [url |-> url, hash |-> id]] :
        id \in AllElemIDs, type \in Types, url \in URLs}

\* Documents as an earlier pass may have left them.
MarkedDoms ==
    {EmptyDom,
     [bookmarked |-> {"e1"}, btype |-> [EmptyDom.btype EXCEPT !["e1"] = "userBookmark"]],
     [bookmarked |-> {"e1"}, btype |-> [EmptyDom.btype EXCEPT !["e1"] = "lastLocation"]]}

CallMarkBookmarks ==
    /\ last = NoOp
    /\ \E pageURL \in URLs, d \in MarkedDoms, bms \in SeqsUpTo(MarkRecords, MaxRecords) :
       \E r \in {ebBookmarksMarkBookmarks(d, bms, pageURL)} :
           /\ last' = [op |-> "markBookmarks", pageURL |-> pageURL, before |-> d,
                       bookmarks |-> bms, dom |-> r.dom, threw |-> r.threw]
           /\ UNCHANGED <<now, localStorage, sessionStorage, page, dom, bookmarks,
                          bookmarksList, lastLocationsList, sdLog, boot, ui>>

\* The documents handed to ebBookmarksFingerprintID: up to MaxRecords
\* elements with distinct ids, each with or without a fingerprint.
FingerprintedDocs ==
    {doc \in SeqsUpTo([id : AllElemIDs,
                      fingerprint : Fingerprints \cup {NoFingerprint}],
                     MaxRecords) :
        \A i, j \in 1..Len(doc) : doc[i].id = doc[j].id => i = j}

Indexes ==
    {NoIndex} \cup
    {[exists |-> TRUE, map |-> m] :
        m \in UNION {[D -> AllElemIDs] : D \in SUBSET Fingerprints}}

CallFingerprintID ==
    /\ last = NoOp
    /\ \E doc \in FingerprintedDocs, index \in Indexes, elementID \in AllElemIDs :
       \E r \in {ebBookmarksFingerprintID(doc, index, elementID)} :
           /\ last' = [op |-> "fingerprintID", doc |-> doc, index |-> index,
                       elementID |-> elementID, ret |-> r.ret, alerts |-> r.alerts]
           /\ UNCHANGED <<now, localStorage, sessionStorage, page, dom, bookmarks,
                          bookmarksList, lastLocationsList, sdLog, boot, ui>>

\* The documents ebBookmarksCreateFingerprintIndex runs on: elements with or
\* without an id and with or without a fingerprint, no id carried twice.
IndexedDocs ==
    {doc \in SeqsUpTo([id : AllElemIDs \cup {""},
                      fingerprint : Fingerprints \cup {NoFingerprint}],
                     MaxRecords) :
        \A i, j \in 1..Len(doc) :
            (doc[i].id = doc[j].id /\ doc[i].id # "") => i = j}

\* ebBookmarksCreateFingerprintIndex() on a document, then
\* ebBookmarksFingerprintID(elementID) on the document as it is by then:
\* the same one, or another.
CallIndexThenFingerprintID ==
    /\ last = NoOp
    /\ \E doc \in IndexedDocs, later \in IndexedDocs, elementID \in AllElemIDs :
       \E index \in {ebBookmarksCreateFingerprintIndex(doc)} :
       \E r \in {ebBookmarksFingerprintID(later, index, elementID)} :
           /\ last' = [op |-> "indexThenFingerprintID", doc |-> doc,
                       later |-> later, index |-> index,
                       elementID |-> elementID, ret |-> r.ret,
                       alerts |-> r.alerts]
           /\ UNCHANGED <<now, localStorage, sessionStorage, page, dom, bookmarks,
                          bookmarksList, lastLocationsList, sdLog, boot, ui>>

\* The longest run of characters put before and after the padding of a
\* text.
MaxText == 2

TextChars == {"a", " ", "."}

Pad(n) == [i \in 1..n |-> "a"]

\* Element texts: short ones, and ones about as long as the excerpt.
Texts ==
    {p \o Pad(k) \o q :
        p \in SeqsUpTo(TextChars, MaxText), q \in SeqsUpTo(TextChars, MaxText),
        k \in {0, ExcerptLength - MaxText, ExcerptLength}}

CallSetDescription ==
    /\ last = NoOp
    /\ \E description \in Selections, innerText \in Texts :
           /\ last' = [op |-> "description", given |-> description,
                       innerText |-> innerText,
                       description |-> DescriptionOf(description, innerText)]
           /\ UNCHANGED <<now, localStorage, sessionStorage, page, dom, bookmarks,
                          bookmarksList, lastLocationsList, sdLog, boot, ui>>

\* The sessionDates of the last locations handed to the pruning.
CleanDates == {1, 2, 12}

\* A last location of Book One as ebBookmarksSetBookmark stores it.
StoredLastLocation(n) ==
    LET bookmark == NewBookmark("lastLocation", "e1", <<>>, StringV(n), "u1")
    IN [key |-> bookmark.key, value |-> bookmark]

\* Storages holding last locations of one book, in every enumeration order.
CleanStorages ==
    {ls \in SeqsUpTo({StoredLastLocation(n) : n \in CleanDates},
                     Cardinality(CleanDates)) :
        \A i, j \in 1..Len(ls) : ls[i] = ls[j] => i = j}

\* ebBookmarksCleanLastLocations run twice in a row.
CallCleanTwice ==
    /\ last = NoOp
    /\ \E ls \in CleanStorages, n \in CleanDates \cup {3} :
       \E once \in {ebBookmarksCleanLastLocations(ls, "Book One", StringV(n))} :
       \E twice \in {ebBookmarksCleanLastLocations(once, "Book One", StringV(n))} :
           /\ last' = [op |-> "cleanTwice", ls |-> ls, cur |-> StringV(n),
                       once |-> once, twice |-> twice]
           /\ UNCHANGED <<now, localStorage, sessionStorage, page, dom, bookmarks,
                          bookmarksList, lastLocationsList, sdLog, boot, ui>>

Hashes == {NoHash, "#e1"}

CallElementID ==
    /\ last = NoOp
    /\ \E element \in AllElemIDs \cup {NoId, NoElement},
          onscreen \in AllElemIDs \cup {NoId, NoElement},
          hash \in Hashes,
          firstWithId \in AllElemIDs \cup {NoElement} :
       \E r \in {ebBookmarksElementID(element, onscreen, hash, firstWithId)} :
           /\ last' = [op |-> "elementID", element |-> element,
                       onscreen |-> onscreen, hash |-> hash,
                       firstWithId |-> firstWithId, threw |-> r.threw, id |-> r.id]
           /\ UNCHANGED <<now, localStorage, sessionStorage, page, dom, bookmarks,
                          bookmarksList, lastLocationsList, sdLog, boot, ui>>

\* Every function on every argument, one call in a behaviour.
NextCalls ==
    \/ CallMarkBookmarks
    \/ CallFingerprintID
    \/ CallSetDescription
    \/ CallCleanTwice
    \/ CallElementID
    \/ CallIndexThenFingerprintID

SpecCalls == Init /\ [][NextCalls]_vars

----------------------------------------------------------------------------
\* The start of the script: the readiness polling (lines 829-835),
\* ebBookmarksInit (lines 820-826) and ebBookmarksSupport (lines 53-66) on
\* the page of tab1

\* How many calls of ebBookmarksInit are followed.
MaxInits == 2

\* A bookmark of an earlier edition of page u2, on an element id the page no
\* longer has.
StaleBookmark ==
    LET bookmark == NewBookmark("userBookmark", "e2", <<>>, StringV(1), "u2")
    IN [key |-> bookmark.key, value |-> bookmark]

\* The last location of session 1 on element e1 of page u2.
LastLocationOnPageTwo ==
    LET bookmark == NewBookmark("lastLocation", "e1", <<>>, StringV(1), "u2")
    IN [key |-> bookmark.key, value |-> bookmark]

\* What earlier sessions may have left in localStorage.
BootStorages ==
    {<<>>, <<StoredLastLocation(1), StoredLastLocation(2)>>, <<StaleBookmark>>,
     <<StaleBookmark, LastLocationOnPageTwo>>}

InitBoot ==
    /\ now = MaxTime
    /\ localStorage \in BootStorages
    /\ sessionStorage = [t \in Tabs |-> Null]
    /\ page = [t \in Tabs |-> NoPage]
    /\ dom = [t \in Tabs |-> EmptyDom]
    /\ bookmarks = [t \in Tabs |-> <<>>]
    /\ bookmarksList = [t \in Tabs |-> <<>>]
    /\ lastLocationsList = [t \in Tabs |-> <<>>]
    /\ sdLog = [t \in Tabs |-> NoLog]
    /\ \E url \in URLs, capabilities \in SUBSET Capabilities,
          controls \in BOOLEAN :
          boot = Booting(url, capabilities, controls, localStorage)
    /\ ui = Shown
    /\ last = NoOp

\* The scripts that assign ids and fingerprints report that they are done.
AssignIDs ==
    /\ ~boot.ebIDsAssigned
    /\ boot' = [boot EXCEPT !.ebIDsAssigned = TRUE]
    /\ UNCHANGED <<now, localStorage, sessionStorage, page, dom, bookmarks,
                   bookmarksList, lastLocationsList, sdLog, ui, last>>

AssignFingerprints ==
    /\ ~boot.ebFingerprintsAssigned
    /\ boot' = [boot EXCEPT !.ebFingerprintsAssigned = TRUE]
    /\ UNCHANGED <<now, localStorage, sessionStorage, page, dom, bookmarks,
                   bookmarksList, lastLocationsList, sdLog, ui, last>>

\* ebBookmarksInit() where ebBookmarksSupport() is false: the else branch of
\* lines 61-65 hides the controls; without a '.bookmarks' element the
\* querySelector result is null and reading its style throws.
InitUnsupported ==
    /\ boot' = [boot EXCEPT !.inits = @ + 1,
                            !.hidden = boot.controls,
                            !.polling = ~boot.controls]
    /\ last' = [NoOp EXCEPT !.op = IF boot.controls THEN "initHidden"
                                   ELSE "initThrew",
                            !.tab = "tab1"]
    /\ UNCHANGED <<now, localStorage, sessionStorage, page, dom, bookmarks,
                   bookmarksList, lastLocationsList, sdLog, ui>>

\* ebBookmarksInit() where ebBookmarksProcess() throws at lines 794-795: the
\* session id and the fingerprint index are written, then classList of the
\* missing '.bookmarks' element is read.
InitWithoutControls ==
    /\ sessionStorage["tab1"] = Null => now <= MaxTime
    /\ \E r \in {ebBookmarksSessionDate(sessionStorage["tab1"], now)} :
          /\ sessionStorage' = [sessionStorage EXCEPT !["tab1"] = r.ss]
          /\ now' = IF r.wrote THEN now + 1 ELSE now
          /\ sdLog' = [sdLog EXCEPT !["tab1"] = LogCall(@, r)]
          /\ last' = [NoOp EXCEPT !.op = "initThrew", !.tab = "tab1",
                                  !.hit = r.wrote]
    /\ boot' = [boot EXCEPT !.inits = @ + 1, !.processed = @ + 1,
                            !.index = TRUE]
    /\ UNCHANGED <<localStorage, page, dom, bookmarks, bookmarksList,
                   lastLocationsList, ui>>

\* ebBookmarksInit() where ebBookmarksProcess() gets past the controls: the
\* listeners are attached, then ebBookmarksCheckForBookmarks runs; when it
\* throws, so does ebBookmarksInit.
InitProcessing ==
    /\ Processed("tab1", boot.url)
    /\ UNCHANGED ui
    /\ \E r \in {ebBookmarksSessionDate(sessionStorage["tab1"], now)} :
       \E c \in {ebBookmarksCheckForBookmarks(localStorage, r.ss, boot.url,
                                              EmptyDom)} :
          boot' = [boot EXCEPT !.inits = @ + 1, !.processed = @ + 1,
                               !.index = TRUE, !.listeners = TRUE,
                               !.polling = c.threw]

\* One tick of ebBookmarksCheckForIDs (lines 830-835): ebBookmarksInit() is
\* called first and clearInterval after it, so a throw inside ebBookmarksInit
\* leaves the interval running.
Tick ==
    /\ boot.polling
    /\ boot.inits < MaxInits
    /\ IF boot.ebIDsAssigned /\ boot.ebFingerprintsAssigned
       THEN IF ~ebBookmarksSupport(boot.capabilities) THEN InitUnsupported
            ELSE IF ~boot.controls THEN InitWithoutControls
            ELSE InitProcessing
       ELSE UNCHANGED vars

NextBoot ==
    \/ AssignIDs
    \/ AssignFingerprints
    \/ Tick

SpecBoot == InitBoot /\ [][NextBoot]_vars

----------------------------------------------------------------------------
\* The reader's handling of the page of tab1: text selections
\* (ebBookmarksListenForTextSelection, lines 746-781) and the two list
\* headers (ebBookmarkListsOpenOnClick, lines 718-743)

\* The nodes of the document: elements, and the text nodes t0..t3.
\*   html > body > h1 > t0
\*               > content > e1 > t1
\*                              > em > t3
\*                         > e2 > t2
\* content, e1 and e2 carry an id.
Nodes == {"html", "body", "h1", "t0", "content", "e1", "t1", "em", "t3",
          "e2", "t2"}

TextNodes == {"t0", "t1", "t2", "t3"}

\* node.parentElement
ParentElement(n) ==
    CASE n = "html" -> NoNode
      [] n = "body" -> "html"
      [] n \in {"h1", "content"} -> "body"
      [] n = "t0" -> "h1"
      [] n \in {"e1", "e2"} -> "content"
      [] n \in {"t1", "em"} -> "e1"
      [] n = "t3" -> "em"
      [] n = "t2" -> "e2"

\* The elements with an id, in document order.
WithId == <<"content", "e1", "e2">>

\* element.closest('[id]'): the element itself or its nearest ancestor with
\* an id; null when there is none.
RECURSIVE Closest(_)
Closest(n) ==
    IF n = NoNode THEN NoNode
    ELSE IF n \in Range(WithId) THEN n
    ELSE Closest(ParentElement(n))

\* document.querySelector(selector) over the elements S that match: the
\* first of them in the document order given.
First(order, S) ==
    order[CHOOSE i \in 1..Len(order) :
              order[i] \in S /\ \A j \in 1..(i - 1) : order[j] \notin S]

\* The class changes of the onselectionchange handler (lines 770-776).
Pending(pending, bookmarkableElement) ==
    LET cleared == IF pending # {}
                   THEN pending \ {First(WithId, pending)} ELSE pending
    IN IF bookmarkableElement # NoNode
       THEN cleared \cup {bookmarkableElement} ELSE cleared

\* The onselectionchange handler. anchorNode and focusNode are what
\* window.getSelection() reports (NoNode for null), text its toString().
\* typeof is 'object' for every node and for null, so parentElement is always
\* read: of null it throws, and closest of a null parentElement throws.
SelectionChange(anchorNode, focusNode, text) ==
    /\ ui.listeners > 0
    /\ ~boot.polling
    /\ LET selectedElement == IF anchorNode # NoNode THEN anchorNode
                              ELSE focusNode
       IN IF selectedElement = NoNode
          THEN ui' = [ui EXCEPT !.selected = selectedElement, !.text = text,
                                !.threw = TRUE]
          ELSE IF ParentElement(selectedElement) = NoNode
          THEN ui' = [ui EXCEPT !.selected = selectedElement, !.text = text,
                                !.threw = TRUE]
          ELSE ui' = [ui EXCEPT
                  !.selected = selectedElement, !.text = text,
                  !.threw = FALSE,
                  !.pending = Pending(@, Closest(ParentElement(selectedElement)))]
    /\ UNCHANGED <<now, localStorage, sessionStorage, page, dom, bookmarks,
                   bookmarksList, lastLocationsList, sdLog, boot, last>>

\* One click listener of a list header (lines 722-736); a panel is named by
\* its header.
ClickListener(u, header) ==
    IF u.headerOpen # {}
    THEN LET openHeader == First(Headers, u.headerOpen)
         IN [u EXCEPT !.headerOpen = (@ \ {openHeader}) \cup {header},
                      !.listOpen = (@ \ {openHeader}) \cup {header}]
    ELSE u

\* The listeners of a header run one after the other.
RECURSIVE ClickListeners(_, _, _)
ClickListeners(u, header, n) ==
    IF n = 0 THEN u
    ELSE ClickListeners(ClickListener(u, header), header, n - 1)

\* A click on a list header.
ClickHeader(header) ==
    /\ ui.listeners > 0
    /\ ui' = [ClickListeners(ui, header, ui.listeners) EXCEPT
                 !.clicked = header]
    /\ UNCHANGED <<now, localStorage, sessionStorage, page, dom, bookmarks,
                   bookmarksList, lastLocationsList, sdLog, boot, last>>

\* ebBookmarkListsOpenOnClick(): one more listener on each header, and the
\* default view. It runs whenever ebBookmarksProcess does: once on the page
\* as delivered, and again at every tick for as long as the interval is not
\* cleared.
ebBookmarkListsOpenOnClick ==
    /\ ui.listeners < MaxInits
    /\ ui.listeners > 0 => boot.polling
    /\ ui' = [ui EXCEPT !.listeners = @ + 1,
                        !.headerOpen = @ \cup {Headers[1]}]
    /\ UNCHANGED <<now, localStorage, sessionStorage, page, dom, bookmarks,
                   bookmarksList, lastLocationsList, sdLog, boot, last>>

\* The page of tab1 as delivered; the script is about to run
\* ebBookmarksProcess, which either completes or throws in
\* ebBookmarksCheckForBookmarks and leaves the interval running.
InitUI ==
    /\ now = 1
    /\ localStorage = <<>>
    /\ sessionStorage = [t \in Tabs |-> Null]
    /\ page = [t \in Tabs |-> NoPage]
    /\ dom = [t \in Tabs |-> EmptyDom]
    /\ bookmarks = [t \in Tabs |-> <<>>]
    /\ bookmarksList = [t \in Tabs |-> <<>>]
    /\ lastLocationsList = [t \in Tabs |-> <<>>]
    /\ sdLog = [t \in Tabs |-> NoLog]
    /\ boot \in {Started, [Started EXCEPT !.polling = TRUE]}
    /\ ui = Delivered
    /\ last = NoOp

NextUI ==
    \/ ebBookmarkListsOpenOnClick
    \/ \E header \in Range(Headers) : ClickHeader(header)
    \/ \E anchorNode \in Nodes \cup {NoNode}, focusNode \in Nodes \cup {NoNode},
          text \in Selections :
            SelectionChange(anchorNode, focusNode, text)

SpecUI == InitUI /\ [][NextUI]_vars

----------------------------------------------------------------------------
\* Properties

Titles == {BookTitle(url) : url \in URLs}

Date(v) == ParseFloat(v.s)

LastLocationsOf(ls, title) == {e \in Range(ls) : IsLastLocationOf(e, title)}

UserBookmarksOf(ls, title) ==
    {e \in Range(ls) : /\ StartsWith(e.key, BookmarkPrefix)
                       /\ e.value.type = "userBookmark"
                       /\ e.value.bookTitle = title}

\* The handlers that end with a reconciliation pass.
Completed == {"load", "setUserBookmark", "setLastLocation", "deleteBookmark",
              "deleteAll"}

\* C1: whatever last locations a book has in storage, after
\* ebBookmarksCleanLastLocations at most two of them remain, and those that
\* remain are the ones with the greatest sessionDates: every removed record is
\* older than every retained one.
C1_KeepsTheGreatest ==
    last.clean.called =>
        LET before == Range(last.clean.before)
            after == last.clean.after
        IN /\ Cardinality(after) <= 2
           /\ \A a \in after, b \in before \ after : Date(b) < Date(a)

\* C2: after every completed load or mutation each book has at most two last
\* locations in storage, at most one of them from a session other than the
\* tab's own, and that one is the most recent of the other sessions' records
\* the pruning was given.
C2_PreviousAndCurrent ==
    last.op \in Completed =>
        \A title \in Titles :
            LET stored == LastLocationsOf(localStorage, title)
                cur == sessionStorage[last.tab]
                others == {e \in stored : e.value.sessionDate # cur}
            IN /\ Cardinality(stored) <= 2
               /\ Cardinality(others) <= 1
               /\ (last.clean.called /\ last.clean.title = title) =>
                      \A e \in others, b \in Range(last.clean.before) :
                          b # cur => Date(b) <= Date(e.value.sessionDate)

\* C3: the records retained by a pruning are exactly the most recent record
\* among those of sessions other than the current one (if there is any) and
\* the current session's own record (if there is one).
C3_RetainedExactly ==
    last.clean.called =>
        LET before == Range(last.clean.before)
            cur == last.clean.cur
            prior == {b \in before : b # cur}
            latestPrior == {b \in prior : \A o \in prior : Date(o) <= Date(b)}
        IN last.clean.after = latestPrior \cup (before \cap {cur})

\* C4: within a session every call of ebBookmarksSessionDate returns the very
\* value the first call returned, and only the first call writes the
\* identifier.
C4_SameSessionDate ==
    \A t \in Tabs :
        sdLog[t].first # Null =>
            /\ sdLog[t].latest = sdLog[t].first
            /\ sdLog[t].writes <= 1

\* C5: a book never has more than one user bookmark in storage, and after a
\* capture, in whatever session, its single user bookmark carries exactly the
\* fields of that capture.
C5_OneUserBookmark ==
    /\ \A title \in Titles :
           Cardinality(UserBookmarksOf(localStorage, title)) <= 1
    /\ last.op = "setUserBookmark" =>
           UserBookmarksOf(localStorage, last.saved.bookTitle)
               = {[key |-> last.key, value |-> last.saved]}

\* A later session has replaced the user bookmark of an earlier one.
C5_Witness ==
    /\ last.op = "setUserBookmark"
    /\ last.hit
    /\ Date(last.saved.sessionDate) > 1
    /\ LastLocationsOf(localStorage, last.saved.bookTitle) # {}

\* C6 as stated: ebBookmarksDeleteBookmark removes the entry at the record's
\* key and leaves every other entry of storage present and unchanged.
C6_OnlyThatEntry ==
    [][last'.op = "deleteBookmark" =>
          Range(localStorage')
              = {e \in Range(localStorage) : e.key # last'.key}]_vars

\* C6, amended: ebBookmarksDeleteBookmark removes the entry at the record's
\* key, adds and changes nothing, and every other entry it removes is a last
\* location pruned by the reconciliation pass: every other user bookmark
\* stays.
C6_OnlyThatEntryAndPruned ==
    [][last'.op = "deleteBookmark" =>
          /\ ~HasKey(localStorage', last'.key)
          /\ Range(localStorage') \subseteq Range(localStorage)
          /\ \A e \in Range(localStorage) \ Range(localStorage') :
                 e.key = last'.key \/ e.value.type = "lastLocation"]_vars

\* A stored record was deleted and the reconciliation pass that followed
\* pruned a last location.
C6_Witness ==
    /\ last.op = "deleteBookmark"
    /\ last.hit
    /\ last.clean.called
    /\ Range(last.clean.before) # last.clean.after

\* C7: when the user declines the confirmation, ebBookmarksDeleteAllBookmarks
\* changes neither storage nor the document nor the lists, and runs no
\* reconciliation.
C7_DeclinedChangesNothing ==
    [][last'.op = "deleteAllDeclined" =>
          /\ UNCHANGED <<localStorage, sessionStorage, page, dom, bookmarks,
                         bookmarksList, lastLocationsList, sdLog, boot>>
          /\ ~last'.clean.called]_vars

\* The user declined in a tab whose list lacks a stored last location of
\* another session: a reconciliation would have changed the list.
C7_Witness ==
    /\ last.op = "deleteAllDeclined"
    /\ \E e \in Range(localStorage) :
           /\ e.value.type = "lastLocation"
           /\ e.value.sessionDate # sessionStorage[last.tab]
           /\ e.key \notin Range(lastLocationsList[last.tab])

\* C8 as stated: after a confirmed ebBookmarksDeleteAllBookmarks(type) no
\* record of that type is stored and every record of the other type that was
\* stored still is; without a type no bookmark record is stored at all.
C8_OnlyThatType ==
    [][last'.op = "deleteAll" =>
          IF last'.type = "undefined"
          THEN \A e \in Range(localStorage') :
                   ~StartsWith(e.key, BookmarkPrefix)
          ELSE /\ \A e \in Range(localStorage') : e.value.type # last'.type
               /\ \A e \in Range(localStorage) :
                      e.value.type # last'.type
                          => e \in Range(localStorage')]_vars

\* C8, amended: after a confirmed ebBookmarksDeleteAllBookmarks(type) no
\* record of that type is stored, nothing is added or changed, and every user
\* bookmark that was stored still is when the type is 'lastLocation'; the
\* last locations stored before a deletion of the user bookmarks may be
\* pruned by the reconciliation pass. Without a type no bookmark record is
\* stored at all.
C8_OnlyThatTypeAndPruned ==
    [][last'.op = "deleteAll" =>
          IF last'.type = "undefined"
          THEN \A e \in Range(localStorage') :
                   ~StartsWith(e.key, BookmarkPrefix)
          ELSE /\ \A e \in Range(localStorage') : e.value.type # last'.type
               /\ Range(localStorage') \subseteq Range(localStorage)
               /\ \A e \in Range(localStorage) :
                      (last'.type = "lastLocation"
                           /\ e.value.type = "userBookmark")
                          => e \in Range(localStorage')]_vars

\* The last locations were deleted beside a user bookmark.
C8_Witness ==
    /\ last.op = "deleteAll"
    /\ last.type = "lastLocation"
    /\ last.hit
    /\ UserBookmarksOf(localStorage, "Book One") # {}

\* C9: a load in a session whose own last location is stored leaves that
\* record in storage and keeps it out of the visible set and of the rendered
\* list.
C9_OwnLastLocationHidden ==
    [][last'.op = "load" =>
          \A e \in Range(localStorage) :
              (/\ e.value.type = "lastLocation"
               /\ e.value.sessionDate = sessionStorage'[last'.tab])
                  => /\ e \in Range(localStorage')
                     /\ e.key \notin Range(bookmarks'[last'.tab])
                     /\ e.key \notin Range(lastLocationsList'[last'.tab])]_vars

\* A page was loaded in a running session whose own last location is stored
\* beside another session's, which is listed.
C9_Witness ==
    /\ last.op = "load"
    /\ ~last.hit
    /\ \E e \in Range(localStorage) :
           /\ e.value.type = "lastLocation"
           /\ e.value.sessionDate = sessionStorage[last.tab]
    /\ lastLocationsList[last.tab] # <<>>

\* C10: the last location a session saves at unload survives that unload's
\* own pruning, and the load that starts a new session lists, for each book,
\* exactly the most recent stored last location.
C10_SavedAtUnloadSurvives ==
    /\ last.op = "setLastLocation" => HasKey(localStorage, last.key)
    /\ (last.op = "load" /\ last.hit) =>
           \A title \in Titles :
               LET stored == LastLocationsOf(localStorage, title)
                   latest == {e \in stored : \A o \in stored :
                                 Date(o.value.sessionDate)
                                     <= Date(e.value.sessionDate)}
               IN {e \in stored :
                      e.key \in Range(lastLocationsList[last.tab])} = latest

\* C11: after ebBookmarksMarkBookmarks(records) an element of the document
\* carries data-bookmarked exactly when some record is located on the current
\* page and has the element's id.
C11_MarkedIffTargeted ==
    last.op = "markBookmarks" =>
        \A e \in Range(ElemIDs(last.pageURL)) :
            e \in last.dom.bookmarked
                <=> \E i \in 1..Len(last.bookmarks) :
                        /\ last.bookmarks[i].location.url = last.pageURL
                        /\ last.bookmarks[i].id = e

\* C13: when the element exists, has a fingerprint, and the index maps that
\* fingerprint to another id, ebBookmarksFingerprintID does not return an
\* element id and raises the warning exactly once.
C13_MismatchWarnsOnce ==
    last.op = "fingerprintID" =>
        \A i \in 1..Len(last.doc) :
            (/\ last.doc[i].id = last.elementID
             /\ last.doc[i].fingerprint # NoFingerprint
             /\ last.index.exists
             /\ last.doc[i].fingerprint \in DOMAIN last.index.map
             /\ last.index.map[last.doc[i].fingerprint] # last.elementID)
                => /\ last.ret \notin AllElemIDs
                   /\ last.alerts = 1

\* The index maps the fingerprint of the element asked about to the other id.
C13_Witness ==
    /\ last.op = "fingerprintID"
    /\ last.elementID = "e1"
    /\ \E i \in 1..Len(last.doc) :
           /\ last.doc[i].id = "e1"
           /\ last.doc[i].fingerprint = "f1"
    /\ last.index.exists
    /\ "f1" \in DOMAIN last.index.map
    /\ last.index.map["f1"] = "e2"

\* Whether the call had nothing to check: no element of that id, no
\* fingerprint on it, or no index.
NothingToCheck ==
    \/ ElementsById(last.doc, last.elementID) = <<>>
    \/ ElementsById(last.doc, last.elementID)[1].fingerprint = NoFingerprint
    \/ ~last.index.exists

\* Whether the index maps the fingerprint of the element to the element's id.
IndexAgrees ==
    /\ ~NothingToCheck
    /\ LET fp == ElementsById(last.doc, last.elementID)[1].fingerprint
       IN fp \in DOMAIN last.index.map /\ last.index.map[fp] = last.elementID

HeldBy(t) == {e \in Range(localStorage) : e.key \in Range(bookmarks[t])}

\* The place of a key in the array of a tab.
PlaceIn(t, key) == CHOOSE i \in 1..Len(bookmarks[t]) : bookmarks[t][i] = key

\* C12: when a user bookmark and a last location on the current page target
\* the same element, after the reconciliation pass the element's
\* data-bookmark-type is userBookmark, in whichever order the two were
\* processed.
C12_UserBookmarkWins ==
    (last.op \in Completed /\ page[last.tab] # NoPage) =>
        \A ub \in HeldBy(last.tab), ll \in HeldBy(last.tab) :
            (/\ ub.value.type = "userBookmark"
             /\ ll.value.type = "lastLocation"
             /\ ub.value.location.url = page[last.tab]
             /\ ll.value.location.url = page[last.tab]
             /\ ub.value.id = ll.value.id)
                => dom[last.tab].btype[ub.value.id] = "userBookmark"

\* A pass has processed the user bookmark of an element first and a last
\* location on the same element after it.
C12_Witness ==
    /\ last.op \in Completed
    /\ page[last.tab] # NoPage
    /\ \E ub \in HeldBy(last.tab), ll \in HeldBy(last.tab) :
           /\ ub.value.type = "userBookmark"
           /\ ll.value.type = "lastLocation"
           /\ ub.value.location.url = page[last.tab]
           /\ ll.value.location.url = page[last.tab]
           /\ ub.value.id = ll.value.id
           /\ PlaceIn(last.tab, ub.key) < PlaceIn(last.tab, ll.key)

\* The first ExcerptLength characters of a text, cut before their last space
\* or full stop when they have one.
CutAtLastBreak(innerText) ==
    LET first == SubSeq(innerText, 1, Min(ExcerptLength, Len(innerText)))
        breaks == {i \in 1..Len(first) : first[i] \in {" ", "."}}
    IN IF breaks = {} THEN first
       ELSE SubSeq(first, 1, (CHOOSE i \in breaks : \A j \in breaks : j <= i) - 1)

\* C18: a non-empty description given to ebBookmarksSetBookmark is stored as
\* it is; without one, the stored description is the first 50 characters of
\* the element's text, cut at their last space or full stop, followed by the
\* ellipsis, whatever the text.
C18_DescriptionOrExcerpt ==
    last.op = "description" =>
        last.description = IF last.given # <<>> THEN last.given
                           ELSE CutAtLastBreak(last.innerText) \o Ellipsis

\* C19: ebBookmarksCleanLastLocations run a second time right after a first
\* run, in the same session, leaves storage as the first run left it.
C19_CleanIsIdempotent ==
    last.op = "cleanTwice" => last.twice = last.once

\* C20: called without an element, ebBookmarksElementID does not throw and
\* answers a usable id: that of the element tagged onscreen; else the
\* fragment of the URL; else the id of the first element that has one.
C20_ElementIDFallsBack ==
    (last.op = "elementID" /\ last.element = NoElement
         /\ last.firstWithId # NoElement) =>
        /\ ~last.threw
        /\ last.id \in AllElemIDs
        /\ last.id = IF last.onscreen \notin {NoElement, NoId} THEN last.onscreen
                     ELSE IF last.hash # NoHash THEN last.hash
                     ELSE last.firstWithId

\* C15 as stated: a last location stored for a book in a session is never
\* overwritten by a later ebBookmarksSetBookmark('lastLocation') of the same
\* book in the same session.
C15_NeverOverwritten ==
    [][(last'.op = "setLastLocation" /\ last'.hit) =>
          GetItem(localStorage', last'.key)
              = GetItem(localStorage, last'.key)]_vars

\* C15, amended: a last location stored for a book in a session is replaced
\* by every later ebBookmarksSetBookmark('lastLocation') of the same book in
\* the same session, so that the key holds the session's latest capture; the
\* call changes no record stored under another key (another session or
\* another book).
C15_OverwrittenInItsSessionOnly ==
    [][last'.op = "setLastLocation" =>
          \A e \in Range(localStorage') :
              IF e.key = last'.key THEN e.value = last'.saved
              ELSE e \in Range(localStorage)]_vars

\* A session has stored its last location a second time, on another element,
\* beside the last location of an earlier session.
C15_Witness ==
    /\ last.op = "setLastLocation"
    /\ last.hit
    /\ last.saved.id = "e2"
    /\ \E e \in LastLocationsOf(localStorage, last.saved.bookTitle) :
           e.key # last.key /\ e.value.id = "e1"

\* C16: ebBookmarksInit runs at most once; once it has run the interval is
\* cancelled, also when the run ended by a throw; it never runs before both
\* readiness flags are true.
C16_InitRunsOnce ==
    /\ boot.inits <= 1
    /\ boot.inits = 1 => ~boot.polling
    /\ boot.inits > 0 => boot.ebIDsAssigned /\ boot.ebFingerprintsAssigned

\* C17: on a browser that lacks a capability, ebBookmarksProcess never runs:
\* the controls, where the page has them, are hidden once ebBookmarksInit has
\* run, no session id and no fingerprint index is written, localStorage stays
\* as the page found it, and no listener is attached.
C17_UnsupportedDoesNothing ==
    boot.capabilities # Capabilities =>
        /\ boot.processed = 0
        /\ boot.inits > 0 /\ boot.controls => boot.hidden
        /\ sessionStorage["tab1"] = Null
        /\ ~boot.index
        /\ localStorage = boot.stored
        /\ ~boot.listeners
        /\ page["tab1"] = NoPage

C17_Witness ==
    /\ boot.capabilities # Capabilities
    /\ boot.stored # <<>>
    /\ boot.inits > 0
    /\ boot.hidden

\* The key the naming scheme gives to a record.
SchemeKey(bookmark) ==
    IF bookmark.type = "userBookmark"
    THEN <<"bookmark-">> \o ebSlugify(bookmark.bookTitle)
             \o <<"-", "userBookmark">>
    ELSE <<"bookmark-">> \o ebSlugify(bookmark.bookTitle)
             \o <<"-", "lastLocation", "-">> \o bookmark.sessionDate.s

Targeting(t, id) ==
    {e \in Range(localStorage) :
        /\ StartsWith(e.key, BookmarkPrefix)
        /\ ebBookmarksCheckForCurrentPage(page[t], e.value.location)
        /\ e.value.id = id}

\* C22: after a completed handler of a tab, an element of its document is
\* typed userBookmark only if a stored user bookmark targets it.
C22_TypedByCurrentRecords ==
    last.op \in Completed /\ page[last.tab] # NoPage =>
        \A id \in Range(ElemIDs(page[last.tab])) :
            dom[last.tab].btype[id] = "userBookmark" =>
                \E e \in Targeting(last.tab, id) : e.value.type = "userBookmark"

\* The last locations of the session of tab t that lie on the page it shows.
OwnLastLocationsHere(t) ==
    {e \in Range(localStorage) :
        /\ StartsWith(e.key, BookmarkPrefix)
        /\ e.value.type = "lastLocation"
        /\ e.value.sessionDate = sessionStorage[t]
        /\ ebBookmarksCheckForCurrentPage(page[t], e.value.location)}

\* The records the second loop of ebBookmarksCheckForBookmarks of tab t lets
\* through.
VisibleTo(t, e) ==
    e.value.type # "lastLocation" \/ e.value.sessionDate # sessionStorage[t]

\* C23: after a reconciliation pass, a last location of the current session
\* on the current page is not in the rendered last-locations list, and its
\* target element is marked all the same.
C23_OwnLastLocationStillMarked ==
    last.op \in Completed /\ page[last.tab] # NoPage =>
        \A e \in OwnLastLocationsHere(last.tab) :
            /\ e.key \notin Range(lastLocationsList[last.tab])
            /\ e.value.id \in dom[last.tab].bookmarked

\* C23 as the pass behaves: such a record is in neither list, and an element
\* is marked only if a record let through by the second loop targets it; a
\* record of the current session alone marks nothing.
C23_OwnLastLocationNeitherListedNorMarked ==
    last.op \in Completed /\ page[last.tab] # NoPage =>
        /\ \A e \in OwnLastLocationsHere(last.tab) :
               /\ e.key \notin Range(lastLocationsList[last.tab])
               /\ e.key \notin Range(bookmarksList[last.tab])
        /\ \A id \in dom[last.tab].bookmarked :
               \E e \in Targeting(last.tab, id) : VisibleTo(last.tab, e)

C23_Witness ==
    /\ last.op = "load"
    /\ \E e \in OwnLastLocationsHere(last.tab) :
           e.value.id \notin dom[last.tab].bookmarked
    /\ dom[last.tab].bookmarked # {}

\* The sessionDates of the records ebBookmarksCleanLastLocations retains.
RetainedDates(ls, title, cur) ==
    LET retained == RetainedLastLocations(ls, title, cur)
    IN {retained[i].sessionDate : i \in 1..Len(retained)}

\* C24: after ebBookmarksCleanLastLocations(title) every last location of
\* the title left in storage has the sessionDate of a retained record.
C24_RemovesAllButRetained ==
    last.op = "cleanTwice" =>
        \A e \in LastLocationsOf(last.once, "Book One") :
            e.value.sessionDate \in RetainedDates(last.ls, "Book One", last.cur)

\* C25: two tabs never hold the same sessionDate, so the keys of their last
\* locations of a book differ.
C25_TabsDifferInSessionDate ==
    \A t1, t2 \in Tabs :
        (t1 # t2 /\ sessionStorage[t1] # Null /\ sessionStorage[t2] # Null) =>
            /\ sessionStorage[t1] # sessionStorage[t2]
            /\ BookmarkKey("lastLocation", "Book One", sessionStorage[t1])
                   # BookmarkKey("lastLocation", "Book One", sessionStorage[t2])

\* The element a selection anchored at node n lies in: a text node lies in
\* its parent element.
ElementOf(n) == IF n \in TextNodes THEN ParentElement(n) ELSE n

\* C26: at most one element is pending a bookmark, and when the latest
\* selection lies in an element that has, or lies within an element that
\* has, an id, the nearest such element is the one pending.
C26_NearestWithIdIsPending ==
    /\ Cardinality(ui.pending) <= 1
    /\ ui.selected # NoNode /\ Closest(ElementOf(ui.selected)) # NoNode =>
           ui.pending = {Closest(ElementOf(ui.selected))}

\* C27: once ebBookmarkListsOpenOnClick has run, exactly one header is open:
\* the one clicked last, or the bookmarks header when none was clicked; and
\* at most one panel is open.
C27_OneHeaderOpen ==
    ui.listeners > 0 =>
        /\ ui.headerOpen = {IF ui.clicked = NoNode THEN Headers[1]
                            ELSE ui.clicked}
        /\ Cardinality(ui.listOpen) <= 1

\* The elements of the page of tab t targeted by a stored record that the
\* tab shows.
TargetedIn(t) ==
    {id \in Range(ElemIDs(page[t])) :
        \E e \in Targeting(t, id) : VisibleTo(t, e)}

\* C28: after a bookmark-button click, a deletion or a confirmed delete-all,
\* the elements carrying data-bookmarked are exactly the targets of the
\* visible records of the current page.
C28_MarkersMatchRecords ==
    last.op \in {"setUserBookmark", "deleteBookmark", "deleteAll"} =>
        dom[last.tab].bookmarked = TargetedIn(last.tab)

\* The stored records located on page url whose id no element of the page
\* carries.
StaleOn(ls, url) ==
    {e \in Range(ls) :
        /\ ebBookmarksCheckForCurrentPage(url, e.value.location)
        /\ e.value.id \notin Range(ElemIDs(url))}

\* C29: on a page for which storage holds a record with an id the page does
\* not have, the first reconciliation pass still marks the targets of the
\* other records, renders every visible record in its list, and
\* initialization completes (the interval is cleared).
C29_StaleRecordDoesNotAbort ==
    (last.op = "load" /\ StaleOn(boot.stored, boot.url) # {}) =>
        /\ dom["tab1"].bookmarked = TargetedIn("tab1")
        /\ \A e \in Range(localStorage) :
               VisibleTo("tab1", e) =>
                   e.key \in Range(bookmarksList["tab1"])
                                \cup Range(lastLocationsList["tab1"])
        /\ ~boot.polling

\* The handlers that delete nothing on purpose: what they remove, they remove
\* by pruning.
PruningOnly == {"load", "setUserBookmark", "setLastLocation"}

\* C30: a handler that only prunes removes no last location of the session
\* of a tab that is open after it, the running tab's included; and the last
\* location it has just saved is in storage.
C30_PruningSparesOpenTabs ==
    [][last'.op \in PruningOnly =>
          /\ \A t \in Tabs : \A e \in Range(localStorage) :
                 (/\ sessionStorage'[t] # Null
                  /\ e.value.type = "lastLocation"
                  /\ e.value.sessionDate = sessionStorage'[t])
                     => HasKey(localStorage', e.key)
          /\ last'.op = "setLastLocation" => HasKey(localStorage', last'.key)]_vars

\* Whether no fingerprint is carried by two elements of the document.
UniqueFingerprints(doc) ==
    \A i, j \in 1..Len(doc) :
        (doc[i].fingerprint = doc[j].fingerprint
             /\ doc[i].fingerprint # NoFingerprint) => i = j

\* C31: with the index just built on a document of unique fingerprints,
\* ebBookmarksFingerprintID(id) returns id without a warning for every
\* element that has an id and a fingerprint; and whenever a warning is
\* raised, two elements share a fingerprint or the document is no longer the
\* one the index was built on.
C31_FreshIndexAgrees ==
    last.op = "indexThenFingerprintID" =>
        /\ (/\ UniqueFingerprints(last.doc)
            /\ last.later = last.doc
            /\ \E i \in 1..Len(last.doc) :
                   /\ last.doc[i].id = last.elementID
                   /\ last.doc[i].fingerprint # NoFingerprint)
               => (last.ret = last.elementID /\ last.alerts = 0)
        /\ last.alerts > 0 =>
               (~UniqueFingerprints(last.doc) \/ last.later # last.doc)

\* The second of two fingerprinted elements is looked up in the unchanged
\* document.
C31_Witness ==
    /\ last.op = "indexThenFingerprintID"
    /\ last.later = last.doc
    /\ UniqueFingerprints(last.doc)
    /\ Len(last.doc) = 2
    /\ last.doc[1].fingerprint # NoFingerprint
    /\ last.doc[2].fingerprint # NoFingerprint
    /\ last.doc[2].id = last.elementID
    /\ last.ret = last.elementID

\* The entries ebBookmarksCleanLastLocations(title) has no business with:
\* the user bookmarks, and the last locations of other titles.
OutOfReach(ls, title) ==
    SelectSeq(ls, LAMBDA e :
        e.value.type = "userBookmark" \/ e.value.bookTitle # title)

\* ebBookmarksCleanLastLocations, for any title and any session, leaves the
\* entries out of its reach as they are in the storage of this state.
PruningKeepsItsFrame ==
    \A title \in Titles, n \in 1..(MaxTime + 1) :
        OutOfReach(ebBookmarksCleanLastLocations(localStorage, title,
                                                 StringV(n)), title)
            = OutOfReach(localStorage, title)

\* A step keeps every user bookmark as it is, unless it is the deletion of
\* that bookmark, a confirmed delete-all of user bookmarks or of every type,
\* or the capture of a user bookmark under the same key; and the pass that
\* ends a capture leaves the captured bookmark in storage.
UserBookmarkGoesOnlyOnRequest ==
    /\ \A e \in Range(localStorage) :
           e.value.type = "userBookmark" =>
               \/ e \in Range(localStorage')
               \/ last'.op = "deleteBookmark" /\ last'.key = e.key
               \/ last'.op = "deleteAll"
                      /\ last'.type \in {"userBookmark", "undefined"}
               \/ last'.op = "setUserBookmark" /\ last'.key = e.key
    /\ last'.op = "setUserBookmark" =>
           [key |-> last'.key, value |-> last'.saved] \in Range(localStorage')

\* C32: ebBookmarksCleanLastLocations(title) changes no user bookmark and no
\* last location of another title, and no handler removes a user bookmark
\* other than by deleting it, by a confirmed delete-all covering its type, or
\* by overwriting it with a new capture for the same book.
C32_PruningLeavesUserBookmarks ==
    []PruningKeepsItsFrame /\ [][UserBookmarkGoesOnlyOnRequest]_vars

\* A pass has pruned last locations of Book One while both books had a user
\* bookmark in storage.
C32_Witness ==
    /\ last.clean.called
    /\ Range(last.clean.before) # last.clean.after
    /\ UserBookmarksOf(localStorage, "Book One") # {}
    /\ UserBookmarksOf(localStorage, "Book Two") # {}
    /\ LastLocationsOf(localStorage, "Book One") # {}

====
